---- MODULE Spec2Model ----
(***************************************************************************)
(* A model of app.py, the NYC taxi trip dashboard: the download step, the  *)
(* cached load_data (path fallback, derived columns, quality filter,       *)
(* sampler), the sidebar filter, the five scalar metrics and the aggregate *)
(* views.                                                                  *)
(*                                                                         *)
(* Units.  Timestamps are seconds since 1970-01-01 00:00:00.  Money is in  *)
(* cents, distance in hundredths of a mile, so that the float comparisons  *)
(* of the source become integer comparisons against the source's bounds    *)
(* scaled by 100.  trip_duration_min is total_seconds / 60, a float: it is *)
(* kept as its numerator (whole seconds) over the denominator 60.          *)
(***************************************************************************)
EXTENDS Integers, Sequences, FiniteSets, TLC

VARIABLES
  pc,       \* position of the script (or of the function under study)
  raw,      \* the trip file's rows, in file order
  raw2,     \* the same rows in another file order, for a second call of load_data
  df,       \* the table load_data returns, once it has returned one
  df2,      \* the same for the call over raw2
  zones_df, \* the zone lookup table
  pred,     \* the sidebar's filter predicate
  filtered_df, \* the FilteredView
  metrics,  \* the labels of the metrics produced so far in this run
  result,   \* the result of the step under study (quality filter or aggregate)
  status,   \* "ok", or the exception that ended the run (or the call)
  run,      \* number of the current script run in the session
  cache,    \* st.cache_data's entry for load_data(): "empty" or "filled"
  loads,    \* how many times the body of load_data has been entered
  io,       \* blocking I/O operations performed in the runs after the first
  files,    \* the files that exist on disk, by path
  computed  \* the script-level names bound so far in the current run

vars == <<pc, raw, raw2, df, df2, zones_df, pred, filtered_df, metrics, result,
          status, run, cache, loads, io, files, computed>>

-----------------------------------------------------------------------------
(* Bounds of the model *)

MaxRows == 3
MaxRuns == 2
NumLoc == 11

-----------------------------------------------------------------------------
(* Program constants *)

FareMax == 200
DistMax == 50
DurMin == 1
DurMax == 180
TopN == 10

-----------------------------------------------------------------------------
(* Helpers on sequences *)

Range(s) == {s[i] : i \in DOMAIN s}

Min2(a, b) == IF a < b THEN a ELSE b

\* The injective sequences over S of length at most n.
InjSeqs(S, n) ==
  UNION {{s \in [1..k -> S] : \A i, j \in 1..k : i # j => s[i] # s[j]} : k \in 0..n}

\* The reorderings of the table t.
Perms(t) ==
  {s \in [1..Len(t) -> Range(t)] : \A i, j \in 1..Len(t) : i # j => s[i] # s[j]}

-----------------------------------------------------------------------------
(* Feature Deriver: lines 57-72 *)

\* pl.col("tpep_pickup_datetime").dt.hour()
pickup_hour(r) == (r.tpep_pickup_datetime \div 3600) % 24

\* .dt.date(), as the day number since 1970-01-01
pickup_date(r) == r.tpep_pickup_datetime \div 86400

\* .dt.weekday(): ISO weekday, Monday = 1 .. Sunday = 7 (1970-01-01 was a Thursday)
pickup_weekday(r) == ((pickup_date(r) + 3) % 7) + 1

\* (dropoff - pickup).dt.total_seconds(); trip_duration_min is this over 60
duration_seconds(r) == r.tpep_dropoff_datetime - r.tpep_pickup_datetime

\* when(fare > 0).then(tip / fare * 100).otherwise(0), as numerator and denominator
tip_pct(r) ==
  IF r.fare_amount > 0 THEN <<r.tip_amount * 100, r.fare_amount>> ELSE <<0, 1>>

\* with_columns([...]): the row with the five derived columns attached
Derive(r) ==
  [id |-> r.id,
   tpep_pickup_datetime |-> r.tpep_pickup_datetime,
   tpep_dropoff_datetime |-> r.tpep_dropoff_datetime,
   PULocationID |-> r.PULocationID,
   fare_amount |-> r.fare_amount,
   tip_amount |-> r.tip_amount,
   total_amount |-> r.total_amount,
   trip_distance |-> r.trip_distance,
   payment_type |-> r.payment_type,
   pickup_hour |-> pickup_hour(r),
   pickup_weekday |-> pickup_weekday(r),
   pickup_date |-> pickup_date(r),
   trip_duration_min |-> <<duration_seconds(r), 60>>,
   tip_pct |-> tip_pct(r)]

DeriveTable(t) == [i \in 1..Len(t) |-> Derive(t[i])]

\* The columns of the table load_data returns: the raw schema plus lines 58-71.
Columns ==
  {"tpep_pickup_datetime", "tpep_dropoff_datetime", "PULocationID", "fare_amount",
   "tip_amount", "total_amount", "trip_distance", "payment_type",
   "pickup_hour", "pickup_weekday", "pickup_date", "trip_duration_min", "tip_pct"}

-----------------------------------------------------------------------------
(* Quality Filter: lines 73-77 *)

\* A mutant of the filter: the upper fare bound made inclusive.
QualityOkLooseFare(d) ==
  /\ d.fare_amount > 0 /\ d.fare_amount <= FareMax * 100
  /\ d.trip_distance > 0 /\ d.trip_distance < DistMax * 100
  /\ d.trip_duration_min[1] > DurMin * d.trip_duration_min[2]
  /\ d.trip_duration_min[1] < DurMax * d.trip_duration_min[2]

\* The predicate of the filter of lines 73-77, as the lazy plan holds it
QualityOk(d) ==
  /\ d.fare_amount > 0 /\ d.fare_amount < FareMax * 100
  /\ d.trip_distance > 0 /\ d.trip_distance < DistMax * 100
  /\ d.trip_duration_min[1] > DurMin * d.trip_duration_min[2]
  /\ d.trip_duration_min[1] < DurMax * d.trip_duration_min[2]

QualityFilter(t) == SelectSeq(t, QualityOk)


-----------------------------------------------------------------------------
(* Sampler and the call of load_data: lines 29-83 *)

\* The names of the polars module the script looks up on pl (lines 33-215) that the
\* module has.  rand, which line 78 looks up, is not among its attributes.
PolarsExports == {"scan_parquet", "read_csv", "col", "when", "count"}

\* pl.<name>: the attribute, or AttributeError
PlAttr(name) == IF name \in PolarsExports THEN "ok" ELSE "AttributeError"

\* The query of lines 55-81 is built top to bottom before collect() runs any of it:
\* with_columns and the quality filter extend the lazy plan, then the argument of the
\* second filter, pl.rand(seed=42) < 0.02, is evaluated and the lookup of rand on pl
\* raises.  head(100_000) and collect() are never called: no row is read, derived,
\* filtered or sampled, and load_data returns nothing.
BuildQuery == PlAttr("rand")

TripLocal == "yellow_tripdata_2024-01.parquet"
TripParent == "../yellow_tripdata_2024-01.parquet"
ZoneLocal == "taxi_zone_lookup.csv"
ZoneParent == "../data/taxi_zone_lookup.csv"

\* The candidates of lines 33 and 37, in order
ResolveTrip(fs) ==
  IF TripLocal \in fs THEN TripLocal ELSE IF TripParent \in fs THEN TripParent ELSE "none"

\* The candidates of lines 45 and 49, in order
ResolveZone(fs) ==
  IF ZoneLocal \in fs THEN ZoneLocal ELSE IF ZoneParent \in fs THEN ZoneParent ELSE "none"

\* Lines 43-83, reached with lf bound: st.stop() at line 53 when the zone lookup has
\* no candidate and nothing was read, else the lookup is read (line 45 or 49) and the
\* query is built.
AfterScan(fs) ==
  IF ResolveZone(fs) = "none" THEN [status |-> "StopException", zone_read |-> FALSE]
  ELSE [status |-> BuildQuery, zone_read |-> TRUE]

\* The ways the body of load_data can end on the files fs, each with whether the
\* zone lookup was read.  With a trip file on disk lf is bound and lines 43-83 run.
\* With none, a scan_parquet that looks for the file when called raises
\* FileNotFoundError twice and line 41 stops the body before the zone lookup is
\* touched; a scan_parquet that only records the path binds lf, and lines 43-83 run.
LoadOutcomes(fs) ==
  IF ResolveTrip(fs) = "none"
  THEN {[status |-> "StopException", zone_read |-> FALSE], AfterScan(fs)}
  ELSE {AfterScan(fs)}

-----------------------------------------------------------------------------
(* The inputs the model draws from *)

\* 2024-01-01 00:00:00, a Monday: the first instant of the month the file covers
Jan1 == 19723 * 86400

Trip(id, pickup, secs, fare, dist, pay, pu) ==
  [id |-> id,
   tpep_pickup_datetime |-> pickup,
   tpep_dropoff_datetime |-> pickup + secs,
   PULocationID |-> pu,
   fare_amount |-> fare,
   tip_amount |-> 200,
   total_amount |-> fare + 200,
   trip_distance |-> dist,
   payment_type |-> pay]

\* Trips on and around every bound of the quality filter: rows 1 and 2 satisfy all
\* three bounds (row 2 by the smallest margin), each other row fails exactly one.
LoadPool ==
  {Trip(1, Jan1 + 8 * 3600, 900, 1000, 200, 1, 1),
   Trip(2, Jan1 + 86400 + 9 * 3600, 61, 19999, 4999, 2, 2),
   Trip(3, Jan1 + 8 * 3600, 900, 20000, 200, 1, 1),
   Trip(4, Jan1 + 8 * 3600, 900, 0, 200, 1, 1),
   Trip(5, Jan1 + 8 * 3600, 900, 1000, 5000, 1, 1),
   Trip(6, Jan1 + 8 * 3600, 900, 1000, 0, 1, 1),
   Trip(7, Jan1 + 8 * 3600, 60, 1000, 200, 1, 1),
   Trip(8, Jan1 + 8 * 3600, 10800, 1000, 200, 1, 1)}

Ids(t) == {t[i].id : i \in DOMAIN t}

NoPred == [date_range |-> <<0, 0>>, hour_range |-> <<0, 23>>, payment_types |-> {}]

\* The variables a specification does not use keep these values.
Idle(v) ==
  /\ ("raw2" \in v => raw2 = <<>> /\ df2 = <<>>)
  /\ ("zones" \in v => zones_df = <<>>)
  /\ ("view" \in v => pred = NoPred /\ filtered_df = <<>> /\ metrics = {})
  /\ ("result" \in v => result = <<>>)
  /\ ("session" \in v => run = 1 /\ cache = "empty" /\ loads = 0 /\ io = 0
                        /\ files = {TripLocal, ZoneLocal} /\ computed = {})

-----------------------------------------------------------------------------
(* SpecLoad: load_data called on a trip file, and on the same rows reordered *)

InitLoad ==
  /\ pc = "scanned"
  /\ raw \in InjSeqs(LoadPool, MaxRows)
  /\ raw2 \in Perms(raw)
  /\ df = <<>>
  /\ df2 = <<>>
  /\ status = "ok"
  /\ Idle({"zones", "view", "result", "session"})

\* load_data() over the file in its first order: the call raises, df stays unbound
LoadFirst ==
  /\ pc = "scanned"
  /\ \E o \in LoadOutcomes(files) : status' = o.status
  /\ loads' = loads + 1
  /\ pc' = "first"
  /\ UNCHANGED <<raw, raw2, df, df2, zones_df, pred, filtered_df, metrics, result,
                 run, cache, io, files, computed>>

\* load_data() over the reordered file
LoadSecond ==
  /\ pc = "first"
  /\ \E o \in LoadOutcomes(files) : status' = o.status
  /\ loads' = loads + 1
  /\ pc' = "compared"
  /\ UNCHANGED <<raw, raw2, df, df2, zones_df, pred, filtered_df, metrics, result,
                 run, cache, io, files, computed>>

NextLoad == LoadFirst \/ LoadSecond

SpecLoad == InitLoad /\ [][NextLoad]_vars

-----------------------------------------------------------------------------
(* SpecQuality: the derived columns and the quality filter, lines 57-77, on a table *)

InitQuality ==
  /\ pc = "scanned"
  /\ raw \in InjSeqs(LoadPool, MaxRows)
  /\ df = <<>>
  /\ result = <<>>
  /\ status = "ok"
  /\ Idle({"raw2", "zones", "view", "session"})

\* lines 57-77: with_columns, then filter, the steps of the query that come before
\* the sampler of lines 78-79
QualityStep ==
  /\ pc = "scanned"
  /\ result' = QualityFilter(DeriveTable(raw))
  /\ pc' = "filtered"
  /\ UNCHANGED <<raw, raw2, df, df2, zones_df, pred, filtered_df, metrics, status,
                 run, cache, loads, io, files, computed>>

NextQuality == QualityStep

SpecQuality == InitQuality /\ [][NextQuality]_vars

-----------------------------------------------------------------------------
(* Claims on the quality filter and on load_data *)

\* The three bounds of the quality filter, stated on a raw row.
InBounds(r) ==
  /\ 0 < r.fare_amount /\ r.fare_amount < 20000
  /\ 0 < r.trip_distance /\ r.trip_distance < 5000
  /\ 60 < r.tpep_dropoff_datetime - r.tpep_pickup_datetime
  /\ r.tpep_dropoff_datetime - r.tpep_pickup_datetime < 10800

\* C1: every row the quality filter lets through has 0 < fare_amount < 200,
\* 0 < trip_distance < 50 and 1 < trip_duration_min < 180, the duration being
\* dropoff - pickup in minutes; a source row failing any one bound is not in the
\* output.
C1_QualityBounds ==
  pc = "filtered" =>
    /\ \A i \in DOMAIN result :
         /\ InBounds(result[i])
         /\ result[i].trip_duration_min[1] =
              result[i].tpep_dropoff_datetime - result[i].tpep_pickup_datetime
         /\ result[i].trip_duration_min[2] = 60
    /\ \A i \in DOMAIN raw : ~InBounds(raw[i]) => raw[i].id \notin Ids(result)

\* A table with the row nearest the bounds kept and a row on a bound dropped.
C1_Witness ==
  /\ pc = "filtered"
  /\ 2 \in Ids(result)
  /\ \E i \in DOMAIN raw : ~InBounds(raw[i])

\* C2: when the quality-filtered table has no more rows than the cap (100,000), the
\* table load_data returns is the quality-filtered table, no row dropped.
C2_AllRowsReturned ==
  (pc = "first" /\ Len(QualityFilter(DeriveTable(raw))) <= 100000) =>
    df = QualityFilter(DeriveTable(raw))

\* Both calls of load_data, over a file and over the same rows reordered, raise at
\* line 78 and select no row: the code has no sample whose membership in the two
\* orders could be compared.
BothLoadsRaise ==
  pc = "compared" => (status = "AttributeError" /\ df = <<>> /\ df2 = <<>>)

-----------------------------------------------------------------------------
(* Interactive Filter: lines 106-110 *)

\* A mutant of is_between: the upper end made exclusive.
IsBetweenHalfOpen(x, lo, hi) == lo <= x /\ x < hi

\* Expr.is_between(lo, hi), closed on both ends
IsBetween(x, lo, hi) == lo <= x /\ x <= hi

\* The predicate of line 107-109 on one row; the date is recomputed from the
\* pickup timestamp, the hour is read from the derived column.
Selected(r, p) ==
  /\ IsBetween(r.tpep_pickup_datetime \div 86400, p.date_range[1], p.date_range[2])
  /\ IsBetween(r.pickup_hour, p.hour_range[1], p.hour_range[2])
  /\ r.payment_type \in p.payment_types

InteractiveFilter(t, p) ==
  LET Keep(r) == Selected(r, p) IN SelectSeq(t, Keep)

-----------------------------------------------------------------------------
(* SpecView: the sidebar filter on a loaded table, for every predicate *)

Day0 == Jan1 \div 86400

\* Trips inside the quality bounds, on three days, at the first, a middle and the
\* last hour of the day, paid in three ways.
ViewPool ==
  {Trip(1, Jan1 + 8 * 3600, 900, 1000, 200, 1, 1),
   Trip(2, Jan1 + 23 * 3600 + 3599, 600, 1500, 300, 2, 2),
   Trip(3, Jan1 + 86400, 1200, 2500, 700, 1, 1),
   Trip(4, Jan1 + 2 * 86400 + 12 * 3600, 300, 700, 100, 3, 3)}

\* The tables load_data can return from these trips.
ViewTables == {DeriveTable(t) : t \in InjSeqs(ViewPool, MaxRows)}

Days == Day0..(Day0 + 2)
Hours == {0, 8, 23}
PaymentTypes == {1, 2, 3}

Preds ==
  [date_range : Days \X Days, hour_range : Hours \X Hours,
   payment_types : {{}, {1}, {2, 3}, {1, 2, 3}}]

InitView ==
  /\ pc = "loaded"
  /\ df \in ViewTables
  /\ pred \in Preds
  /\ filtered_df = <<>>
  /\ metrics = {}
  /\ raw = <<>>
  /\ status = "ok"
  /\ Idle({"raw2", "zones", "result", "session"})

ApplyFilter ==
  /\ pc = "loaded"
  /\ filtered_df' = InteractiveFilter(df, pred)
  /\ pc' = "filtered"
  /\ UNCHANGED <<raw, raw2, df, df2, zones_df, pred, metrics, result, status, run,
                 cache, loads, io, files, computed>>

NextView == ApplyFilter

SpecView == InitView /\ [][NextView]_vars

\* C4: the Interactive Filter returns exactly the rows of the sampled table whose
\* pickup date is within the inclusive date range and whose pickup hour is within the
\* inclusive hour range and whose payment type is in the set, in the table's order;
\* an empty payment-type set yields zero rows whatever the date and hour ranges.
C4_FilterExact ==
  pc = "filtered" =>
    /\ \A i \in DOMAIN df :
         (df[i] \in Range(filtered_df)) <=>
           /\ pred.date_range[1] <= df[i].tpep_pickup_datetime \div 86400
           /\ df[i].tpep_pickup_datetime \div 86400 <= pred.date_range[2]
           /\ pred.hour_range[1] <= (df[i].tpep_pickup_datetime \div 3600) % 24
           /\ (df[i].tpep_pickup_datetime \div 3600) % 24 <= pred.hour_range[2]
           /\ df[i].payment_type \in pred.payment_types
    /\ Range(filtered_df) \subseteq Range(df)
    /\ \A i, j \in DOMAIN filtered_df : i < j =>
         \E a, b \in DOMAIN df : a < b /\ df[a] = filtered_df[i] /\ df[b] = filtered_df[j]
    /\ (pred.payment_types = {} => filtered_df = <<>>)

\* A filter that keeps a trip on the last day and hour of its ranges and drops others.
C4_Witness ==
  /\ pc = "filtered"
  /\ Len(filtered_df) >= 1
  /\ Len(filtered_df) < Len(df)
  /\ \E i \in DOMAIN filtered_df :
       /\ filtered_df[i].pickup_hour = pred.hour_range[2]
       /\ filtered_df[i].pickup_date = pred.date_range[2]

-----------------------------------------------------------------------------
(* The script, run after run in one session: lines 13-85 *)

\* response.raise_for_status(), line 21
RaiseForStatus(ok) == IF ok THEN "ok" ELSE "HTTPError"

\* A mutant of download_file: the exception of raise_for_status swallowed.
AfterFetchSwallowed(st, next) == next

\* An exception leaving download_file ends the script run; otherwise the script
\* goes on to its next statement.
AfterFetch(st, next) == IF st = "ok" THEN next ELSE "halted"

Zone(id, name) == [LocationID |-> id, Zone |-> name]

\* The content of the remote zone lookup
ZoneFile == <<Zone(1, "Newark Airport"), Zone(2, "Jamaica Bay"), Zone(3, "Allerton")>>

\* min of a non-empty set of integers
SetMin(S) == CHOOSE x \in S : \A y \in S : x <= y
SetMax(S) == CHOOSE x \in S : \A y \in S : y <= x

PickupDates(t) == {t[i].tpep_pickup_datetime \div 86400 : i \in DOMAIN t}

\* The widgets' defaults, lines 94-95, 98 and 103
Defaults(t) ==
  [date_range |-> <<SetMin(PickupDates(t)), SetMax(PickupDates(t))>>,
   hour_range |-> <<0, 23>>,
   payment_types |-> {t[i].payment_type : i \in DOMAIN t}]

\* What the widgets can return after the user changed them: a date range being
\* picked holds its first date only; the multiselect offers the observed types.
UserPreds(t) ==
  [date_range : {<<a>> : a \in Days} \cup {d \in Days \X Days : d[1] <= d[2]},
   hour_range : {h \in Hours \X Hours : h[1] <= h[2]},
   payment_types : SUBSET {t[i].payment_type : i \in DOMAIN t}]

\* The first run of a session shows the defaults; a rerun follows a widget change.
WidgetValues(n, t) == IF n = 1 THEN {Defaults(t)} ELSE UserPreds(t)

MetricLabels ==
  <<"Total Trips", "Avg Fare ($)", "Total Revenue ($)", "Avg Distance (mi)",
    "Avg Duration (min)">>

\* The column each metric of lines 117-121 reads, and how it reduces it
MetricColumn ==
  <<"", "fare_amount", "total_amount", "trip_distance", "trip_duration_minutes">>
MetricKind == <<"height", "mean", "sum", "mean", "mean">>

\* What evaluating the k-th metric does: filtered_df[col] raises on a column the
\* table does not have; mean() of an empty column is None and round(None, 2)
\* raises; sum() of an empty column is 0.
MetricOutcome(k, t) ==
  IF MetricKind[k] = "height" THEN "ok"
  ELSE IF MetricColumn[k] \notin Columns THEN "ColumnNotFoundError"
  ELSE IF MetricKind[k] = "mean" /\ t = <<>> THEN "TypeError"
  ELSE "ok"

MetricPc == <<"metric1", "metric2", "metric3", "metric4", "metric5", "top_pickups">>

\* Two trips inside the quality bounds and one outside them
RunPool ==
  {Trip(1, Jan1 + 8 * 3600, 900, 1000, 200, 1, 1),
   Trip(3, Jan1 + 86400, 1200, 2500, 700, 2, 1),
   Trip(5, Jan1 + 8 * 3600, 900, 20000, 200, 1, 1)}

InitRun ==
  /\ pc = "download_trip"
  /\ run = 1
  /\ status = "ok"
  /\ cache = "empty"
  /\ loads = 0
  /\ io = 0
  /\ files \in SUBSET {TripParent, ZoneParent}
  /\ raw \in InjSeqs(RunPool, MaxRows)
  /\ df = <<>>
  /\ zones_df = <<>>
  /\ computed = {}
  /\ Idle({"raw2", "view", "result"})

\* line 26: download_file(tripData, tripDataPath): a fetch, then a write when the
\* status is good
DownloadTrip ==
  /\ pc = "download_trip"
  /\ \E ok \in BOOLEAN :
       /\ status' = RaiseForStatus(ok)
       /\ pc' = AfterFetch(RaiseForStatus(ok), "download_zone")
       /\ files' = IF ok THEN files \cup {TripLocal} ELSE files
       /\ io' = IF run > 1 THEN io + (IF ok THEN 2 ELSE 1) ELSE io
  /\ UNCHANGED <<raw, raw2, df, df2, zones_df, pred, filtered_df, metrics, result,
                 run, cache, loads, computed>>

\* line 27: download_file(zoneLookup, zoneLookupPath)
DownloadZone ==
  /\ pc = "download_zone"
  /\ \E ok \in BOOLEAN :
       /\ status' = (IF ok THEN status ELSE RaiseForStatus(ok))
       /\ pc' = AfterFetch(RaiseForStatus(ok), "load_data")
       /\ files' = IF ok THEN files \cup {ZoneLocal} ELSE files
       /\ io' = IF run > 1 THEN io + (IF ok THEN 2 ELSE 1) ELSE io
  /\ UNCHANGED <<raw, raw2, df, df2, zones_df, pred, filtered_df, metrics, result,
                 run, cache, loads, computed>>

\* line 85: df, zones_df = load_data(), behind st.cache_data.  A call that raises
\* stores nothing in the cache, and no call returns: the cache stays empty and every
\* run enters the body again; with both files on disk it reads the zone lookup
\* (line 45) and raises at line 78.
LoadData ==
  /\ pc = "load_data"
  /\ IF cache = "filled"
     THEN /\ computed' = computed \cup {"df", "zones_df"}
          /\ pc' = "widgets"
          /\ UNCHANGED <<loads, status, io>>
     ELSE /\ \E o \in LoadOutcomes(files) :
               /\ status' = (IF status = "ok" THEN o.status ELSE status)
               /\ pc' = (IF o.status = "ok" THEN "widgets" ELSE "halted")
               /\ io' = IF run > 1 /\ o.zone_read THEN io + 1 ELSE io
          /\ loads' = loads + 1
          /\ UNCHANGED computed
  /\ UNCHANGED <<raw, raw2, df, df2, zones_df, pred, filtered_df, metrics, result,
                 run, cache, files>>

\* The user reloads the page: the script runs again from its first line, with a
\* fresh namespace; the cache and the files stay.
Rerun ==
  /\ pc = "halted"
  /\ run < MaxRuns
  /\ run' = run + 1
  /\ pc' = "download_trip"
  /\ status' = "ok"
  /\ computed' = {}
  /\ UNCHANGED <<raw, raw2, df, df2, zones_df, pred, filtered_df, metrics, result,
                 cache, loads, io, files>>

NextRun ==
  \/ DownloadTrip
  \/ DownloadZone
  \/ LoadData
  \/ Rerun

SpecRun == InitRun /\ [][NextRun]_vars

\* The ways loading fails: a fetch with a bad status (line 21), no candidate path
\* (lines 41, 53), and the exception raised while the query is built (line 78)
LoadFailed == status \in {"HTTPError", "StopException", "AttributeError"}

\* C9: when loading fails (a fetch with a bad status, or no candidate path for the
\* trip file or the zone lookup), the run halts there: no table is bound, and no
\* FilteredView, metric or aggregate is computed in that run.
C9_LoadFailureHalts ==
  LoadFailed =>
    /\ pc = "halted"
    /\ computed = {}
    /\ df = <<>> /\ zones_df = <<>>
    /\ filtered_df = <<>> /\ metrics = {} /\ result = <<>>

\* A rerun in which the trip file was fetched and written and the zone fetch failed.
C9_Witness ==
  /\ status = "HTTPError"
  /\ pc = "halted"
  /\ run = 2
  /\ TripLocal \in files
  /\ ZoneLocal \notin files

\* C10: across the runs of a session the body of load_data executes once, and no run
\* after the first performs blocking I/O.
C10_LoadOnceNoLaterIO ==
  loads <= 1 /\ io = 0

-----------------------------------------------------------------------------
(* SpecDash: lines 92-121 of a run, on a loaded table *)

InitDash ==
  /\ pc = "widgets"
  /\ run \in 1..MaxRuns
  /\ df \in ViewTables
  /\ zones_df = ZoneFile
  /\ status = "ok"
  /\ cache = "filled"
  /\ loads = 1
  /\ io = 0
  /\ files = {TripLocal, ZoneLocal}
  /\ computed = {"df", "zones_df"}
  /\ raw = <<>>
  /\ Idle({"raw2", "view", "result"})

\* lines 92-104: the sidebar widgets; min() of an empty column is None
Widgets ==
  /\ pc = "widgets"
  /\ IF df = <<>>
     THEN /\ status' = "AttributeError"
          /\ pc' = "halted"
          /\ UNCHANGED pred
     ELSE /\ \E p \in WidgetValues(run, df) : pred' = p
          /\ pc' = "filter"
          /\ UNCHANGED status
  /\ UNCHANGED <<raw, raw2, df, df2, zones_df, filtered_df, metrics, result, run,
                 cache, loads, io, files, computed>>

\* lines 106-110
Filter ==
  /\ pc = "filter"
  /\ IF Len(pred.date_range) < 2
     THEN /\ status' = "IndexError"
          /\ pc' = "halted"
          /\ UNCHANGED <<filtered_df, computed>>
     ELSE /\ filtered_df' = InteractiveFilter(df, pred)
          /\ computed' = computed \cup {"filtered_df"}
          /\ pc' = "metric1"
          /\ UNCHANGED status
  /\ UNCHANGED <<raw, raw2, df, df2, zones_df, pred, metrics, result, run, cache,
                 loads, io, files>>

\* lines 117-121, one metric at a time
Metric(k) ==
  /\ pc = MetricPc[k]
  /\ IF MetricOutcome(k, filtered_df) = "ok"
     THEN /\ metrics' = metrics \cup {MetricLabels[k]}
          /\ pc' = MetricPc[k + 1]
          /\ UNCHANGED status
     ELSE /\ status' = MetricOutcome(k, filtered_df)
          /\ pc' = "halted"
          /\ UNCHANGED metrics
  /\ UNCHANGED <<raw, raw2, df, df2, zones_df, pred, filtered_df, result, run,
                 cache, loads, io, files, computed>>

NextDash ==
  \/ Widgets
  \/ Filter
  \/ \E k \in 1..5 : Metric(k)

SpecDash == InitDash /\ [][NextDash]_vars

\* C7: when the filter predicate matches no rows, the run raises no exception: the
\* filter yields an empty table and the scalar metrics complete.
C7_EmptyViewCompletes ==
  ("filtered_df" \in computed /\ filtered_df = <<>>) => status = "ok"

\* C8: after a successful load, a run with a non-empty FilteredView produces all five
\* scalar metrics, each from a column the loaded table has, and ends without an
\* exception.
C8_AllMetricsProduced ==
  ("filtered_df" \in computed /\ filtered_df # <<>> /\ pc \in {"halted", "top_pickups"}) =>
    /\ status = "ok"
    /\ metrics = Range(MetricLabels)

-----------------------------------------------------------------------------
(* Aggregator: top pickup locations (lines 128-135), demand matrix (212-225) *)

\* group_by("PULocationID").agg(pl.count().alias("trip_count")): the groups, which
\* come in no fixed order
GroupCount(t) ==
  {[PULocationID |-> k,
    trip_count |-> Cardinality({i \in DOMAIN t : t[i].PULocationID = k})] :
     k \in {t[i].PULocationID : i \in DOMAIN t}}

\* The groups of G that no other group exceeds in count
Largest(G) == {g \in G : \A h \in G : h.trip_count <= g.trip_count}

RECURSIVE SortDesc(_)
\* .sort("trip_count", descending=True) on groups in no fixed order: every sequence
\* of the groups whose counts descend; groups of equal count come in any order
SortDesc(G) ==
  IF G = {} THEN {<<>>}
  ELSE UNION {{<<g>> \o s : s \in SortDesc(G \ {g})} : g \in Largest(G)}

\* .head(10)
HeadN(s) == SubSeq(s, 1, Min2(Len(s), TopN))

Joined(l, z) == [PULocationID |-> l.PULocationID, trip_count |-> l.trip_count, Zone |-> z.Zone]

RECURSIVE JoinProbeLeft(_, _, _, _)
\* The inner join in the order of the left table (and of the right within a left row).
JoinProbeLeft(left, right, i, j) ==
  IF i > Len(left) THEN <<>>
  ELSE IF j > Len(right) THEN JoinProbeLeft(left, right, i + 1, 1)
  ELSE IF left[i].PULocationID = right[j].LocationID
       THEN <<Joined(left[i], right[j])>> \o JoinProbeLeft(left, right, i, j + 1)
       ELSE JoinProbeLeft(left, right, i, j + 1)

RECURSIVE JoinProbeRight(_, _, _, _)
\* The inner join in the order of the right table (and of the left within a right row).
JoinProbeRight(left, right, j, i) ==
  IF j > Len(right) THEN <<>>
  ELSE IF i > Len(left) THEN JoinProbeRight(left, right, j + 1, 1)
  ELSE IF left[i].PULocationID = right[j].LocationID
       THEN <<Joined(left[i], right[j])>> \o JoinProbeRight(left, right, j, i + 1)
       ELSE JoinProbeRight(left, right, j, i + 1)

\* .join(zones_df, left_on="PULocationID", right_on="LocationID"): an inner join with
\* no maintain_order, whose row order the library leaves open: the rows come in the
\* order of whichever table the hash join probes.
Join(left, right, probeLeft) ==
  IF probeLeft THEN JoinProbeLeft(left, right, 1, 1)
  ELSE JoinProbeRight(left, right, 1, 1)

\* lines 128-135: every table the expression can yield
TopPickups(t, z) ==
  {Join(HeadN(s), z, probeLeft) : s \in SortDesc(GroupCount(t)), probeLeft \in BOOLEAN}

\* The columns line 214 groups by
HeatmapKeys == <<"pickup_day_of_week", "pickup_hour">>

\* group_by on a column the table does not have raises
GroupByOutcome(keys) ==
  IF \E k \in DOMAIN keys : keys[k] \notin Columns THEN "ColumnNotFoundError" ELSE "ok"

\* group_by(index, on).agg(count).pivot(values, index, on).fill_null(0): one row per
\* value of index present, one column per value of on present, absent pairs 0
PivotCounts(t, index, on) ==
  [w \in {t[i][index] : i \in DOMAIN t}, h \in {t[i][on] : i \in DOMAIN t} |->
     Cardinality({i \in DOMAIN t : t[i][index] = w /\ t[i][on] = h})]

-----------------------------------------------------------------------------
(* SpecAgg: the two aggregates on a loaded table and a zone lookup *)

Locs == 1..NumLoc

ZoneName(i) == "Zone " \o ToString(i)

\* How many trips a location has when it has any: one at the locations 1 to 3, and
\* from there on a number that grows with the location and that two neighbours share
Weight(l) == IF l <= 3 THEN 1 ELSE (l + 1) \div 2

RECURSIVE Cum(_, _)
\* The number of trips picked up at the locations 1..l
Cum(c, l) == IF l = 0 THEN 0 ELSE c[l] + Cum(c, l - 1)

\* The loaded table with c[l] trips picked up at location l, each location's trips
\* on its own weekday and hour
TableOfCounts(c) ==
  [i \in 1..Cum(c, NumLoc) |->
     LET l == CHOOSE x \in Locs : Cum(c, x - 1) < i /\ i <= Cum(c, x)
     IN Derive(Trip(i, Jan1 + (l % 7) * 86400 + (l % 24) * 3600, 900, 1000, 200, 1, l))]

\* The tables with trips at any non-empty set of the locations: up to NumLoc
\* locations, more than the ten that are kept, with counts that tie in twos and
\* threes.  The table is not empty: line 94 raises on an empty one.
AggTables ==
  {TableOfCounts([l \in Locs |-> IF l \in present THEN Weight(l) ELSE 0]) :
     present \in (SUBSET Locs) \ {{}}}

\* Zone lookups, each location id at most once: every location in ascending order
\* of id, the lookup without location 1, and a lookup of two zones
ZoneTables ==
  {[i \in 1..NumLoc |-> Zone(i, ZoneName(i))],
   [i \in 1..(NumLoc - 1) |-> Zone(i + 1, ZoneName(i + 1))],
   <<Zone(2, ZoneName(2)), Zone(1, ZoneName(1))>>}

InitAgg ==
  /\ pc = "loaded"
  /\ df \in AggTables
  /\ zones_df \in ZoneTables
  /\ result = <<>>
  /\ status = "ok"
  /\ raw = <<>>
  /\ Idle({"raw2", "view", "session"})

\* lines 128-135
TopPickupsStep ==
  /\ pc = "loaded"
  /\ result' \in TopPickups(df, zones_df)
  /\ pc' = "top_done"
  /\ UNCHANGED <<raw, raw2, df, df2, zones_df, pred, filtered_df, metrics, status,
                 run, cache, loads, io, files, computed>>

\* lines 212-225
HeatmapStep ==
  /\ pc = "loaded"
  /\ IF GroupByOutcome(HeatmapKeys) = "ok"
     THEN /\ result' = PivotCounts(df, HeatmapKeys[1], HeatmapKeys[2])
          /\ UNCHANGED status
     ELSE /\ status' = GroupByOutcome(HeatmapKeys)
          /\ UNCHANGED result
  /\ pc' = "heat_done"
  /\ UNCHANGED <<raw, raw2, df, df2, zones_df, pred, filtered_df, metrics, run,
                 cache, loads, io, files, computed>>

NextAgg == TopPickupsStep \/ HeatmapStep

SpecAgg == InitAgg /\ [][NextAgg]_vars

RECURSIVE SumOver(_, _)
SumOver(f, S) ==
  IF S = {} THEN 0
  ELSE LET x == CHOOSE y \in S : TRUE IN f[x] + SumOver(f, S \ {x})

\* C5: the day-of-week x hour demand matrix built from any table has exactly 7 rows
\* and 24 columns, every entry >= 0, and its entries sum to the table's row count.
C5_HeatmapMatrix ==
  pc = "heat_done" =>
    /\ status = "ok"
    /\ DOMAIN result = (1..7) \X (0..23)
    /\ \A x \in DOMAIN result : result[x] >= 0
    /\ SumOver(result, DOMAIN result) = Len(df)

\* C6: the Top-N pickup locations result has at most 10 rows, in descending order of
\* trip count, each count the number of rows of the table with that pickup location,
\* and every returned location id has a zone name in the zone lookup.
C6_TopPickups ==
  pc = "top_done" =>
    /\ Len(result) <= 10
    /\ \A i, j \in DOMAIN result : i < j => result[i].trip_count >= result[j].trip_count
    /\ \A i \in DOMAIN result :
         /\ result[i].trip_count =
              Cardinality({k \in DOMAIN df : df[k].PULocationID = result[i].PULocationID})
         /\ \E z \in DOMAIN zones_df :
              /\ zones_df[z].LocationID = result[i].PULocationID
              /\ zones_df[z].Zone = result[i].Zone

\* The rest of C6, which holds: at most 10 rows, true counts, every id with its zone
\* name; only the order of the rows is lost in the join.
TopPickupsButOrder ==
  pc = "top_done" =>
    /\ Len(result) <= 10
    /\ \A i \in DOMAIN result :
         /\ result[i].trip_count =
              Cardinality({k \in DOMAIN df : df[k].PULocationID = result[i].PULocationID})
         /\ \E z \in DOMAIN zones_df :
              /\ zones_df[z].LocationID = result[i].PULocationID
              /\ zones_df[z].Zone = result[i].Zone

====
